---- MODULE Spec2Model ----
(***************************************************************************)
(* State-machine model of the block-reaction engine.                       *)
(*                                                                         *)
(*   Spec         both variants (push: class BlockchainService, pull:      *)
(*                class BlockchainServiceHTTP) under the clock: feed,      *)
(*                dispatch, parameter cache, refresh                       *)
(*   SpecMonitor  both variants with the Confirmation Monitor, within the  *)
(*                first validity window of the cache                       *)
(*                                                                         *)
(* The engine runs on a single-threaded event loop: a handler runs without *)
(* interruption until it awaits a chain-client call.  Every action below   *)
(* is one such run-to-suspension segment: the delivery of an event or of   *)
(* the answer to a chain-client call, together with all synchronous code   *)
(* that follows it up to the next chain-client call.                       *)
(*                                                                         *)
(* Time is counted in units of 10 seconds.  Transaction hashes are the     *)
(* ordinals of accepted submissions (1, 2, ...), so the insertion order of *)
(* the pending map is the numeric order of its keys.                       *)
(***************************************************************************)
EXTENDS Integers, Sequences, FiniteSets, TLC

\* ------------------------------------------------------------------ bounds
MaxBudget == 2      \* largest transactionCount explored
MaxSkip == 1        \* largest initialBlocksToSkip explored
MaxBlocks == 2      \* push: block events delivered to the engine in one run
MaxPolled == 3      \* pull: blocks processBlock counts in one run
MaxHeight == 3      \* blocks the chain grows by in one run
MaxTime == 6        \* clock horizon (units of 10 s)
MaxFaults == 1      \* chain-client failures and connection losses in one run
MaxSockets == 2     \* WebSocket objects created in one run
MaxMonitor == 2     \* Confirmation Monitor ticks in flight at once
MaxRefresh == 1     \* Refresh Scheduler ticks in flight at once
MaxDropped == 1     \* inbound messages the handler drops in one run
GenesisTime == 5    \* timestamp of block 0 (one block per time unit)
MaxStartTime == 0   \* latest time at which start() is still in progress

\* ------------------------------------------------------- program constants
GAS_CACHE_TTL == 3          \* 30000 ms
NONCE_CACHE_TTL == 6        \* 60000 ms
REFRESH_INTERVAL == 2       \* 20000 ms
BLOCK_CONFIRMATION_DELAY == 0
GasPriceDefault == 2        \* config.gasPriceGwei, used when the node reports none
InitialNonce == 0           \* the account's sequence number when the run starts

VARIABLES
    config,                 \* [transactionCount, initialBlocksToSkip]
    variant,                \* "push": BlockchainService, "pull": BlockchainServiceHTTP
    lastProcessedBlock,     \* pull: the last block number handed to processBlock
    isPolling,              \* pull
    poll,                   \* pull: the pollBlocks invocation: [pc, block, current]
    shutdownRequested,      \* main: a shutdown signal was handled
    stopCalled,             \* history: stop() has been called
    stoppedAt,              \* history: the block event in progress (or the last
                            \* one delivered) when stop() was first called
    inbound,                \* history: [last: the last message a socket
                            \* delivered, dropped: messages not passed on]
    proc,                   \* position of start(), then running or exited
    startT0,                \* `now` captured by the cache get start() is suspended in
    now,                    \* Date.now()
    blockCount,
    sentTransactionCount,
    pendingTransactions,    \* hash :> [sentBlock, sentBlockTimestamp]
    confirmationMetrics,    \* sequence of ConfirmationMetrics
    isConnected,
    ws,                     \* this.ws: 0 is null, else a socket id
    cachedGasData,          \* [set, value, lastUpdated]
    cachedNonce,            \* [set, value, lastUpdated]
    socks,                  \* every WebSocket object created: its state
    timers,                 \* outstanding reconnect timers
    exitTimer,              \* the 1 s auto-exit timer is armed
    refreshAt,              \* next firing time of the refresh interval
    dispatch,               \* block event ordinal :> its handleNewBlock invocation
    monitor,                \* slot :> a Confirmation Monitor tick
    refresh,                \* slot :> a Refresh Scheduler tick
    height,                 \* chain head
    txs,                    \* accepted submissions, by hash
    dispatched,             \* history: block event ordinals that entered sendTransaction
    faults                  \* failures injected so far

vars == << config, variant, lastProcessedBlock, isPolling, poll,
           shutdownRequested, stopCalled, stoppedAt, inbound, proc,
           startT0, now, blockCount, sentTransactionCount,
           pendingTransactions, confirmationMetrics, isConnected, ws,
           cachedGasData, cachedNonce, socks, timers, exitTimer, refreshAt,
           dispatch, monitor, refresh, height, txs, dispatched, faults >>

feedVars == << lastProcessedBlock, isPolling, poll >>

lifeVars == << shutdownRequested, stopCalled, stoppedAt >>

engineVars == << blockCount, sentTransactionCount, pendingTransactions,
                 confirmationMetrics, cachedGasData, cachedNonce >>

\* ------------------------------------------------------------------ helpers
\* Inbound WebSocket data: whether JSON.parse accepts it, its method field,
\* and whether params.result is present.
Messages == [parses : BOOLEAN, method : {"eth_subscription", "none"},
             result : BOOLEAN]
NoMessage == [parses |-> FALSE, method |-> "", result |-> FALSE]

\* block.timestamp of the block with the given number.
BlockTimestamp(b) == GenesisTime + b

\* A handler that passes on whatever parses.
PassedToHandleNewBlockLoose(msg) == msg.parses

\* The test of the 'message' handler: JSON.parse did not throw, and
\* message.method === 'eth_subscription' && message.params?.result.
PassedToHandleNewBlock(msg) ==
    msg.parses /\ msg.method = "eth_subscription" /\ msg.result

NullCell == [set |-> FALSE, value |-> 0, lastUpdated |-> 0]

\* gasCached / nonceCached: the `cached` flag the two cache gets returned.
IdleDispatch ==
    [pc |-> "idle", block |-> 0, t0 |-> 0, gasPrice |-> 0, nonce |-> 0,
     gasCached |-> FALSE, nonceCached |-> FALSE]
\* A sendTransaction invocation that ended in its catch block after the
\* submission was issued: the record keeps the sequence value it offered
\* and, as its block, the number of block events delivered by then.
FailedDispatch(task, count) ==
    [IdleDispatch EXCEPT !.pc = "failed", !.nonce = task.nonce, !.block = count]
\* A Confirmation Monitor tick: its position, the hash it is at and, as
\* history, the number of submissions accepted when it started.
IdleMonitor == [pc |-> "idle", hash |-> 0, startLen |-> 0]
IdleRefresh == [pc |-> "idle", t0 |-> 0]

IdlePoll == [pc |-> "idle", block |-> 0, current |-> 0]
SleepingPoll == [pc |-> "sleep", block |-> 0, current |-> 0]

\* The ordinals of the block events one run can deliver.
Events == 1..(IF MaxBlocks > MaxPolled THEN MaxBlocks ELSE MaxPolled)
MonitorSlots == 1..MaxMonitor
RefreshSlots == 1..MaxRefresh

Hashes == 1..Len(txs)
MinedCount == Cardinality({h \in Hashes : txs[h].minedAt > 0})

\* What the node may report as the fee rate: 0 stands for "no gasPrice".
FeeAnswers == {0, 1}
\* What a sequence query may answer.
NonceAnswers == (InitialNonce + MinedCount)..(InitialNonce + Len(txs))

CanFail == faults < MaxFaults

GasCacheValidInclusive(t) ==
    cachedGasData.set /\ t - cachedGasData.lastUpdated <= GAS_CACHE_TTL

\* getCachedGasData / getCachedNonce: the validity test of a cell at time t.
GasCacheValid(t) ==
    cachedGasData.set /\ t - cachedGasData.lastUpdated < GAS_CACHE_TTL

NonceCacheValid(t) ==
    cachedNonce.set /\ t - cachedNonce.lastUpdated < NONCE_CACHE_TTL

\* feeData.gasPrice || parseUnits(config.gasPriceGwei)
GasPriceOf(answer) == IF answer = 0 THEN GasPriceDefault ELSE answer

\* The cell a completed query writes: the timestamp is the `now` captured
\* before the query was issued.
FreshCell(v, t0) == [set |-> TRUE, value |-> v, lastUpdated |-> t0]

CellAfterErrorCleared(cell) == NullCell

\* The cell after a get whose query rejected: the await throws and the
\* assignment to the cell is not reached.
CellAfterError(cell) == cell

\* A cache get suspended at pc ends with the error of its query.
GetRejects(pc) ==
    /\ cachedGasData' = IF pc = "getFeeData"
                         THEN CellAfterError(cachedGasData) ELSE cachedGasData
    /\ cachedNonce' = IF pc = "getNonce"
                       THEN CellAfterError(cachedNonce) ELSE cachedNonce

\* An advance that also stamps the cell with the time of the advance.
AdvanceNonceStamped(cell) ==
    IF cell.set THEN [cell EXCEPT !.value = @ + 1, !.lastUpdated = now] ELSE cell

\* if (this.cachedNonce) this.cachedNonce.nonce++
AdvanceNonce(cell) ==
    IF cell.set THEN [cell EXCEPT !.value = @ + 1] ELSE cell

\* sendTransaction from `await getCachedNonce()` on, given the task that
\* already holds its gas price: a valid cell is read and the budget slot is
\* reserved before the submission is issued, else the sequence query is issued.
NonceStep(task) ==
    IF NonceCacheValid(now)
    THEN [task EXCEPT !.pc = "sendTransaction", !.nonce = cachedNonce.value,
                      !.nonceCached = TRUE]
    ELSE [task EXCEPT !.pc = "getNonce", !.t0 = now]

\* sendTransaction from its first line.
GasStep(blockNumber) ==
    IF GasCacheValid(now)
    THEN NonceStep([IdleDispatch EXCEPT !.block = blockNumber,
                                        !.gasPrice = cachedGasData.value,
                                        !.gasCached = TRUE])
    ELSE [IdleDispatch EXCEPT !.pc = "getFeeData", !.block = blockNumber,
                              !.t0 = now]

\* this.sentTransactionCount++ happens iff the task reached the submission.
Reserved(task) == IF task.pc = "sendTransaction" THEN 1 ELSE 0

\* A catch that leaves the counter as the failed attempt set it.
CatchSendErrorKept(sent) == sent

\* catch (error) { this.sentTransactionCount--; }
CatchSendError(sent) == sent - 1

SkippedOneLess(count) == count < config.initialBlocksToSkip

\* if (this.blockCount <= this.config.initialBlocksToSkip) ... return
Skipped(count) == count <= config.initialBlocksToSkip

\* A budget test that lets a run at its budget send once more.
BudgetLeftInclusive(sent) == sent <= config.transactionCount

\* if (this.sentTransactionCount < this.config.transactionCount)
BudgetLeft(sent) == sent < config.transactionCount

TypeOK ==
    /\ config.transactionCount \in 1..MaxBudget
    /\ config.initialBlocksToSkip \in 0..MaxSkip
    /\ variant \in {"push", "pull"}
    /\ proc \in {"constructed", "getFeeData", "getNonce", "getBlockNumber",
                 "running", "exited"}
    /\ now \in 0..MaxTime
    /\ blockCount \in Events \cup {0}
    /\ lastProcessedBlock \in 0..MaxHeight
    /\ isPolling \in BOOLEAN
    /\ shutdownRequested \in BOOLEAN
    /\ stopCalled \in BOOLEAN
    /\ stoppedAt \in Events \cup {0}
    /\ inbound \in [last : Messages \cup {NoMessage}, dropped : 0..MaxDropped]
    /\ poll.pc \in {"idle", "sleep", "getBlockNumber", "getBlock", "sendTransaction"}
    /\ sentTransactionCount \in Int
    /\ ws \in 0..Len(socks)
    /\ isConnected \in BOOLEAN
    /\ height \in 0..MaxHeight

\* --------------------------------------------------------------------- Init
Init ==
    /\ config \in [transactionCount : 1..MaxBudget, initialBlocksToSkip : 0..MaxSkip]
    /\ variant \in {"push", "pull"}
    /\ lastProcessedBlock = 0
    /\ isPolling = FALSE
    /\ poll = IdlePoll
    /\ shutdownRequested = FALSE
    /\ stopCalled = FALSE
    /\ stoppedAt = 0
    /\ inbound = [last |-> NoMessage, dropped |-> 0]
    /\ proc = "constructed"
    /\ startT0 = 0
    /\ now = 0
    /\ blockCount = 0
    /\ sentTransactionCount = 0
    /\ pendingTransactions = << >>
    /\ confirmationMetrics = << >>
    /\ isConnected = FALSE
    /\ ws = 0
    /\ cachedGasData = NullCell
    /\ cachedNonce = NullCell
    /\ socks = << >>
    /\ timers = 0
    /\ exitTimer = FALSE
    /\ refreshAt = 0
    /\ dispatch = [e \in Events |-> IdleDispatch]
    /\ monitor = [m \in MonitorSlots |-> IdleMonitor]
    /\ refresh = [r \in RefreshSlots |-> IdleRefresh]
    /\ height = 0
    /\ txs = << >>
    /\ dispatched = {}
    /\ faults = 0

Running == proc = "running"

\* ------------------------------------------------------------------- start()
\* start(): the first getCachedGasData() finds the cell empty and queries.
StartBegin ==
    /\ proc = "constructed"
    /\ proc' = "getFeeData"
    /\ startT0' = now
    /\ UNCHANGED << config, variant, inbound, lifeVars, feedVars, now, engineVars, isConnected,
                    ws, socks, timers, exitTimer, refreshAt, dispatch,
                    monitor, refresh, height, txs, dispatched, faults >>

\* The fee query of start() answers; getCachedNonce() finds its cell empty.
StartGasOk ==
    /\ proc = "getFeeData"
    /\ \E a \in FeeAnswers : cachedGasData' = FreshCell(GasPriceOf(a), startT0)
    /\ proc' = "getNonce"
    /\ startT0' = now
    /\ UNCHANGED << config, variant, inbound, lifeVars, feedVars, now, blockCount,
                    sentTransactionCount, pendingTransactions,
                    confirmationMetrics, cachedNonce, isConnected, ws, socks,
                    timers, exitTimer, refreshAt, dispatch, monitor, refresh,
                    height, txs, dispatched, faults >>

\* connectWebSocket(): a new socket object replaces this.ws.
ConnectedSocks == Append(socks, "connecting")

\* The sequence query of start() answers.  Push: the feed and both timers
\* start.  Pull: start() asks the chain client for the current block number.
StartNonceOk ==
    /\ proc = "getNonce"
    /\ \E v \in NonceAnswers : cachedNonce' = FreshCell(v, startT0)
    /\ IF variant = "push"
       THEN /\ proc' = "running"
            /\ socks' = ConnectedSocks
            /\ ws' = Len(socks) + 1
            /\ refreshAt' = now + REFRESH_INTERVAL
       ELSE /\ proc' = "getBlockNumber"
            /\ UNCHANGED << socks, ws, refreshAt >>
    /\ UNCHANGED << config, variant, inbound, lifeVars, feedVars, startT0, now, blockCount,
                    sentTransactionCount, pendingTransactions,
                    confirmationMetrics, cachedGasData, isConnected, timers,
                    exitTimer, dispatch, monitor, refresh, height, txs,
                    dispatched, faults >>

\* Pull: the block number of start() answers: polling starts from the
\* chain head, pollBlocks() runs up to its own block-number query, and both
\* timers start.
StartBlockNumberOk ==
    /\ proc = "getBlockNumber"
    /\ lastProcessedBlock' = height
    /\ isPolling' = TRUE
    /\ poll' = [IdlePoll EXCEPT !.pc = "getBlockNumber"]
    /\ proc' = "running"
    /\ refreshAt' = now + REFRESH_INTERVAL
    /\ UNCHANGED << config, variant, inbound, lifeVars, startT0, now, engineVars, isConnected,
                    ws, socks, timers, exitTimer, dispatch, monitor, refresh,
                    height, txs, dispatched, faults >>

\* A failed fee query of start() that a catch inside the getter swallows:
\* start() goes on to its next await.
StartFailSwallowed ==
    /\ proc \in {"getFeeData", "getNonce", "getBlockNumber"}
    /\ CanFail
    /\ proc' = IF proc = "getFeeData" THEN "getNonce" ELSE "exited"
    /\ faults' = faults + 1
    /\ GetRejects(proc)
    /\ UNCHANGED << config, variant, inbound, lifeVars, feedVars, startT0, now, blockCount,
                    sentTransactionCount, pendingTransactions,
                    confirmationMetrics, isConnected, ws, socks, timers,
                    exitTimer, refreshAt, dispatch, monitor, refresh, height,
                    txs, dispatched >>

\* A query of start() fails: start() rejects and main() exits the process.
StartFail ==
    /\ proc \in {"getFeeData", "getNonce", "getBlockNumber"}
    /\ CanFail
    /\ proc' = "exited"
    /\ faults' = faults + 1
    /\ GetRejects(proc)
    /\ UNCHANGED << config, variant, inbound, lifeVars, feedVars, startT0, now, blockCount,
                    sentTransactionCount, pendingTransactions,
                    confirmationMetrics, isConnected, ws, socks, timers,
                    exitTimer, refreshAt, dispatch, monitor, refresh, height,
                    txs, dispatched >>

\* ------------------------------------------------------------- environment
\* The clock advances; an interval timer that is due fires first.
Tick ==
    /\ proc # "exited"
    /\ now < MaxTime
    /\ IF Running THEN now < refreshAt ELSE now < MaxStartTime
    /\ now' = now + 1
    /\ UNCHANGED << config, variant, inbound, lifeVars, feedVars, proc, startT0, engineVars,
                    isConnected, ws, socks, timers, exitTimer, refreshAt,
                    dispatch, monitor, refresh, height, txs, dispatched,
                    faults >>

Unmined == {h \in Hashes : txs[h].minedAt = 0}

\* The account's sequence number on the chain.
ChainNonce == InitialNonce + MinedCount

\* A block can include the accepted transactions S: they carry the next
\* sequence values of the account, one transaction each.
Includable(S) ==
    LET ns == {txs[h].nonce : h \in S} IN
    /\ Cardinality(ns) = Cardinality(S)
    /\ ns = ChainNonce..(ChainNonce + Cardinality(S) - 1)

\* The transactions a new block at the given height includes: some of the
\* accepted ones that are not mined yet.
Mine(S, at) ==
    [h \in Hashes |-> IF h \in S THEN [txs[h] EXCEPT !.minedAt = at] ELSE txs[h]]

Subscribed == \E s \in DOMAIN socks : socks[s] = "subscribed"

\* The chain grows by one block that is announced to nobody: no socket is
\* subscribed (or the run's block events are used up), or the pull variant
\* is still in start(), waiting for the block number.
NewChainBlock ==
    /\ Running \/ (variant = "pull" /\ proc = "getBlockNumber")
    /\ height < MaxHeight
    /\ ~Subscribed \/ blockCount = MaxBlocks
    /\ height' = height + 1
    /\ \E S \in SUBSET Unmined : Includable(S) /\ txs' = Mine(S, height + 1)
    /\ UNCHANGED << config, variant, inbound, lifeVars, feedVars, proc, startT0, now, engineVars,
                    isConnected, ws, socks, timers, exitTimer, refreshAt,
                    dispatch, monitor, refresh, dispatched, faults >>

\* ------------------------------------------------------------ the WebSocket
Live(s) == socks[s] \in {"connecting", "open", "subscribed"}

\* ws.close(): a live socket starts closing; its 'close' event follows.
CloseSock(ss, s) ==
    IF s # 0 /\ ss[s] \in {"connecting", "open", "subscribed"}
    THEN [ss EXCEPT ![s] = "closing"]
    ELSE ss

\* A service that reconnects without subscribing again.
SubscribeToNewBlocksOmitted(ss) == ss

\* subscribeToNewBlocks(), called from the 'open' handler after isConnected
\* was set: the subscribe request goes out on this.ws.
SubscribeToNewBlocks(ss) ==
    IF ws # 0 /\ ss[ws] = "open" THEN [ss EXCEPT ![ws] = "subscribed"] ELSE ss

\* 'open' of socket s.
SockOpen(s) ==
    /\ Running
    /\ socks[s] = "connecting"
    /\ isConnected' = TRUE
    /\ socks' = SubscribeToNewBlocks([socks EXCEPT ![s] = "open"])
    /\ UNCHANGED << config, variant, inbound, lifeVars, feedVars, proc, startT0, now, engineVars,
                    ws, timers, exitTimer, refreshAt, dispatch, monitor,
                    refresh, height, txs, dispatched, faults >>

\* An 'error' handler that schedules a reconnect of its own, before the one
\* of 'close'.
SockErrorReconnects(s) ==
    /\ Running
    /\ Live(s)
    /\ CanFail
    /\ faults' = faults + 1
    /\ isConnected' = FALSE
    /\ socks' = [socks EXCEPT ![s] = "closing"]
    /\ timers' = timers + 1
    /\ UNCHANGED << config, variant, inbound, lifeVars, feedVars, proc, startT0, now, engineVars,
                    ws, exitTimer, refreshAt, dispatch, monitor,
                    refresh, height, txs, dispatched >>

\* 'error' of socket s (the connection is lost); 'close' follows.
SockError(s) ==
    /\ Running
    /\ Live(s)
    /\ CanFail
    /\ faults' = faults + 1
    /\ isConnected' = FALSE
    /\ socks' = [socks EXCEPT ![s] = "closing"]
    /\ UNCHANGED << config, variant, inbound, lifeVars, feedVars, proc, startT0, now, engineVars,
                    ws, timers, exitTimer, refreshAt, dispatch, monitor,
                    refresh, height, txs, dispatched >>

\* 'close' of socket s: setTimeout(() => this.connectWebSocket(), 5000).
SockClose(s) ==
    /\ Running
    /\ socks[s] = "closing"
    /\ socks' = [socks EXCEPT ![s] = "closed"]
    /\ isConnected' = FALSE
    /\ timers' = timers + 1
    /\ UNCHANGED << config, variant, inbound, lifeVars, feedVars, proc, startT0, now, engineVars,
                    ws, exitTimer, refreshAt, dispatch, monitor, refresh,
                    height, txs, dispatched, faults >>

\* The reconnect timer fires.
Reconnect ==
    /\ Running
    /\ timers > 0
    /\ Len(socks) < MaxSockets
    /\ timers' = timers - 1
    /\ socks' = ConnectedSocks
    /\ ws' = Len(socks) + 1
    /\ UNCHANGED << config, variant, inbound, lifeVars, feedVars, proc, startT0, now, engineVars,
                    isConnected, exitTimer, refreshAt, dispatch, monitor,
                    refresh, height, txs, dispatched, faults >>

\* The history of stop() calls: the first call records the block event in
\* progress.
StopRecorded(event) ==
    /\ stopCalled' = TRUE
    /\ stoppedAt' = IF stopCalled THEN stoppedAt ELSE event

\* stop(): close the socket, forget it, and exit when everything is confirmed.
StopProc ==
    IF Len(confirmationMetrics) = config.transactionCount THEN "exited" ELSE proc

\* A stop() that flips the feed flag instead of clearing it.
HaltedToggled(flag) == ~flag

\* The feed flag after stop(): this.isConnected = false (push),
\* this.isPolling = false (pull).
Halted(flag) == FALSE

Stop ==
    /\ socks' = CloseSock(socks, ws)
    /\ ws' = 0
    /\ isConnected' = Halted(isConnected)
    /\ proc' = StopProc

\* Pull: stop() ends the polling and exits when everything is confirmed.
StopHTTP ==
    /\ isPolling' = Halted(isPolling)
    /\ proc' = StopProc

\* A for loop that starts at the block before the one it is given.
ForLoopFromBefore(blockNumber, currentBlock) ==
    IF blockNumber <= currentBlock - BLOCK_CONFIRMATION_DELAY
    THEN [pc |-> "getBlock", block |-> blockNumber - 1, current |-> currentBlock]
    ELSE SleepingPoll

\* Pull: the for loop of pollBlocks at its test for blockNumber, currentBlock
\* being the head the poll read: processBlock(blockNumber) is called and
\* asks for the block, or the loop is over and the next poll is scheduled.
ForLoop(blockNumber, currentBlock) ==
    IF blockNumber <= currentBlock - BLOCK_CONFIRMATION_DELAY
    THEN [pc |-> "getBlock", block |-> blockNumber, current |-> currentBlock]
    ELSE SleepingPoll

ProcessBlockReturnsForRetry ==
    IF variant = "pull"
    THEN /\ lastProcessedBlock' = poll.block - 1
         /\ poll' = SleepingPoll
    ELSE UNCHANGED << lastProcessedBlock, poll >>

\* Pull: processBlock returns to the for loop of pollBlocks, which records
\* the block as processed and moves on.  Push: nothing awaits the dispatch.
ProcessBlockReturns ==
    IF variant = "pull"
    THEN /\ lastProcessedBlock' = poll.block
         /\ poll' = ForLoop(poll.block + 1, poll.current)
    ELSE UNCHANGED << lastProcessedBlock, poll >>

\* ---------------------------------------------------------------- the caller
\* The block event in progress when a caller stops the service: the block
\* the poll loop is fetching, else the last one delivered.
EventInProgress ==
    IF poll.pc = "getBlock" /\ blockCount < MaxPolled
    THEN blockCount + 1 ELSE blockCount

\* The caller invokes stop().
CallerStops ==
    /\ Running
    /\ IF variant = "push"
       THEN Stop /\ UNCHANGED isPolling
       ELSE StopHTTP /\ UNCHANGED << socks, ws, isConnected >>
    /\ StopRecorded(EventInProgress)
    /\ UNCHANGED << config, variant, inbound, shutdownRequested, lastProcessedBlock,
                    poll, startT0, now, engineVars, timers, exitTimer,
                    refreshAt, dispatch, monitor, refresh, height, txs,
                    dispatched, faults >>

\* Pull: main's handleShutdown runs for SIGINT or SIGTERM.  The second
\* signal exits; the first stops the service and exits at once when the
\* budget is used up.
Signal ==
    /\ Running
    /\ variant = "pull"
    /\ IF shutdownRequested
       THEN /\ proc' = "exited"
            /\ UNCHANGED << shutdownRequested, stopCalled, stoppedAt,
                            isPolling >>
       ELSE /\ shutdownRequested' = TRUE
            /\ isPolling' = Halted(isPolling)
            /\ StopRecorded(EventInProgress)
            /\ proc' = IF BudgetLeft(sentTransactionCount)
                        THEN StopProc ELSE "exited"
    /\ UNCHANGED << config, variant, inbound, lastProcessedBlock, poll, startT0, now,
                    engineVars, isConnected, ws, socks, timers, exitTimer,
                    refreshAt, dispatch, monitor, refresh, height, txs,
                    dispatched, faults >>

\* Socket s delivers data that the 'message' handler does not pass on: the
\* parse error is caught and logged, any other message is ignored.
DropMessage(s) ==
    /\ Running
    /\ socks[s] \in {"open", "subscribed"}
    /\ inbound.dropped < MaxDropped
    /\ \E msg \in Messages :
          /\ ~PassedToHandleNewBlock(msg)
          /\ inbound' = [last |-> msg, dropped |-> inbound.dropped + 1]
    /\ UNCHANGED << config, variant, lifeVars, feedVars, proc, startT0, now,
                    engineVars, isConnected, ws, socks, timers, exitTimer,
                    refreshAt, dispatch, monitor, refresh, height, txs,
                    dispatched, faults >>

\* ------------------------------------------------------ Dispatch Controller
\* The chain grows by one block and its notification arrives on socket s:
\* handleNewBlock runs up to its first chain-client call.
HandleNewBlock(s) ==
    /\ Running
    /\ socks[s] = "subscribed"
    /\ \E msg \in Messages :
          /\ PassedToHandleNewBlock(msg)
          /\ inbound' = [inbound EXCEPT !.last = msg]
    /\ height < MaxHeight
    /\ blockCount < MaxBlocks
    /\ height' = height + 1
    /\ \E S \in SUBSET Unmined : Includable(S) /\ txs' = Mine(S, height + 1)
    /\ blockCount' = blockCount + 1
    /\ IF Skipped(blockCount + 1)
       THEN UNCHANGED << sentTransactionCount, dispatch, dispatched, proc,
                         socks, ws, isConnected, stopCalled, stoppedAt >>
       ELSE IF BudgetLeft(sentTransactionCount)
       THEN LET task == GasStep(height + 1) IN
            /\ dispatch' = [dispatch EXCEPT ![blockCount + 1] = task]
            /\ sentTransactionCount' = sentTransactionCount + Reserved(task)
            /\ dispatched' = dispatched \cup {blockCount + 1}
            /\ UNCHANGED << proc, socks, ws, isConnected, stopCalled,
                            stoppedAt >>
       ELSE /\ Stop
            /\ StopRecorded(blockCount + 1)
            /\ UNCHANGED << sentTransactionCount, dispatch, dispatched >>
    /\ UNCHANGED << config, variant, shutdownRequested, feedVars, startT0,
                    now, pendingTransactions, confirmationMetrics,
                    cachedGasData, cachedNonce, timers, exitTimer, refreshAt,
                    monitor, refresh, faults >>

\* The fee query of dispatch e answers.
GasResponse(e) ==
    /\ Running
    /\ dispatch[e].pc = "getFeeData"
    /\ \E a \in FeeAnswers :
          LET gp == GasPriceOf(a)
              task == NonceStep([dispatch[e] EXCEPT !.gasPrice = gp]) IN
          /\ cachedGasData' = FreshCell(gp, dispatch[e].t0)
          /\ dispatch' = [dispatch EXCEPT ![e] = task]
          /\ sentTransactionCount' = sentTransactionCount + Reserved(task)
    /\ UNCHANGED << config, variant, inbound, lifeVars, feedVars, proc, startT0, now, blockCount,
                    pendingTransactions, confirmationMetrics, cachedNonce,
                    isConnected, ws, socks, timers, exitTimer, refreshAt,
                    monitor, refresh, height, txs, dispatched, faults >>

\* The sequence query of dispatch e answers: the slot is reserved and the
\* submission is issued.
NonceResponse(e) ==
    /\ Running
    /\ dispatch[e].pc = "getNonce"
    /\ \E v \in NonceAnswers :
          /\ cachedNonce' = FreshCell(v, dispatch[e].t0)
          /\ dispatch' = [dispatch EXCEPT ![e].pc = "sendTransaction",
                                          ![e].nonce = v]
    /\ sentTransactionCount' = sentTransactionCount + 1
    /\ UNCHANGED << config, variant, inbound, lifeVars, feedVars, proc, startT0, now, blockCount,
                    pendingTransactions, confirmationMetrics, cachedGasData,
                    isConnected, ws, socks, timers, exitTimer, refreshAt,
                    monitor, refresh, height, txs, dispatched, faults >>

\* The fee or sequence query of dispatch e fails: the catch block runs.
QueryFailure(e) ==
    /\ Running
    /\ dispatch[e].pc \in {"getFeeData", "getNonce"}
    /\ CanFail
    /\ faults' = faults + 1
    /\ sentTransactionCount' = CatchSendError(sentTransactionCount)
    /\ dispatch' = [dispatch EXCEPT ![e] = IdleDispatch]
    /\ GetRejects(dispatch[e].pc)
    /\ ProcessBlockReturns
    /\ UNCHANGED << config, variant, inbound, lifeVars, isPolling, proc, startT0, now,
                    blockCount, pendingTransactions, confirmationMetrics,
                    isConnected, ws, socks, timers, exitTimer, refreshAt,
                    monitor, refresh, height, txs, dispatched >>

\* An entry that records the chain head at submission instead of the block
\* of the event.
PendingEntryAtHead(task) ==
    [sentBlock |-> height, sentBlockTimestamp |-> BlockTimestamp(height)]

\* The pending entry sendTransaction records.
PendingEntry(task) ==
    [sentBlock |-> task.block, sentBlockTimestamp |-> BlockTimestamp(task.block)]

\* The node takes the transaction of the task: its sequence value is not
\* used up on the chain, and it outbids every transaction waiting with the
\* same sequence value (only the sequence value and the fee rate vary
\* between submissions, so an equal bid is the transaction already known).
Acceptable(task) ==
    /\ task.nonce >= ChainNonce
    /\ \A h \in Unmined :
          txs[h].nonce = task.nonce => task.gasPrice > txs[h].gasPrice

\* The chain client accepts the submission of dispatch e and returns the
\* hash of the new transaction.
SubmitSuccess(e) ==
    /\ Running
    /\ dispatch[e].pc = "sendTransaction"
    /\ Acceptable(dispatch[e])
    /\ cachedNonce' = AdvanceNonce(cachedNonce)
    /\ txs' = Append(txs, [nonce |-> dispatch[e].nonce,
                           gasPrice |-> dispatch[e].gasPrice,
                           sentBlock |-> dispatch[e].block,
                           event |-> e,
                           minedAt |-> 0])
    /\ pendingTransactions' =
          (Len(txs) + 1 :> PendingEntry(dispatch[e])) @@ pendingTransactions
    /\ dispatch' = [dispatch EXCEPT ![e] = IdleDispatch]
    /\ ProcessBlockReturns
    /\ UNCHANGED << config, variant, inbound, lifeVars, isPolling, proc, startT0, now,
                    blockCount, sentTransactionCount, confirmationMetrics,
                    cachedGasData, isConnected, ws, socks, timers, exitTimer,
                    refreshAt, monitor, refresh, height, dispatched, faults >>

\* The chain client rejects the submission of dispatch e, or the call fails.
SubmitFailure(e) ==
    /\ Running
    /\ dispatch[e].pc = "sendTransaction"
    /\ IF Acceptable(dispatch[e])
       THEN CanFail /\ faults' = faults + 1
       ELSE UNCHANGED faults
    /\ sentTransactionCount' = CatchSendError(sentTransactionCount)
    /\ dispatch' = [dispatch EXCEPT ![e] = FailedDispatch(dispatch[e], blockCount)]
    /\ ProcessBlockReturns
    /\ UNCHANGED << config, variant, inbound, lifeVars, isPolling, proc, startT0, now,
                    blockCount, pendingTransactions, confirmationMetrics,
                    cachedGasData, cachedNonce, isConnected, ws, socks,
                    timers, exitTimer, refreshAt, monitor, refresh, height,
                    txs, dispatched >>

\* ------------------------------------------------------------ the poll loop
\* The poll timer fires: pollBlocks returns when polling was stopped, else
\* asks the chain client for the current block number.
PollFire ==
    /\ Running
    /\ poll.pc = "sleep"
    /\ poll' = IF isPolling THEN [IdlePoll EXCEPT !.pc = "getBlockNumber"]
                ELSE IdlePoll
    /\ UNCHANGED << config, variant, inbound, lifeVars, lastProcessedBlock, isPolling, proc,
                    startT0, now, engineVars, isConnected, ws, socks, timers,
                    exitTimer, refreshAt, dispatch, monitor, refresh, height,
                    txs, dispatched, faults >>

\* The block number answers: the for loop starts behind the last processed
\* block, or there is nothing new and the next poll is scheduled.
BlockNumberResponse ==
    /\ Running
    /\ poll.pc = "getBlockNumber"
    /\ poll' = IF height > lastProcessedBlock + BLOCK_CONFIRMATION_DELAY
                THEN ForLoop(lastProcessedBlock + 1, height)
                ELSE SleepingPoll
    /\ UNCHANGED << config, variant, inbound, lifeVars, lastProcessedBlock, isPolling, proc,
                    startT0, now, engineVars, isConnected, ws, socks, timers,
                    exitTimer, refreshAt, dispatch, monitor, refresh, height,
                    txs, dispatched, faults >>

\* A failed block-number query whose error leaves pollBlocks before the
\* next poll is scheduled.
PollFailureUnscheduled ==
    /\ Running
    /\ poll.pc = "getBlockNumber"
    /\ CanFail
    /\ faults' = faults + 1
    /\ poll' = IdlePoll
    /\ UNCHANGED << config, variant, inbound, lifeVars, lastProcessedBlock, isPolling, proc,
                    startT0, now, engineVars, isConnected, ws, socks, timers,
                    exitTimer, refreshAt, dispatch, monitor, refresh, height,
                    txs, dispatched >>

\* The block-number query fails: the error is logged and the next poll is
\* scheduled.
PollFailure ==
    /\ Running
    /\ poll.pc = "getBlockNumber"
    /\ CanFail
    /\ faults' = faults + 1
    /\ poll' = SleepingPoll
    /\ UNCHANGED << config, variant, inbound, lifeVars, lastProcessedBlock, isPolling, proc,
                    startT0, now, engineVars, isConnected, ws, socks, timers,
                    exitTimer, refreshAt, dispatch, monitor, refresh, height,
                    txs, dispatched >>

\* A poll loop that does not wait for sendTransaction: it goes on to the
\* next block while the dispatch is in progress.
SendTransactionNotAwaited(p) == ForLoop(p.block + 1, p.current)

\* Pull: processBlock, and with it the for loop, awaits sendTransaction.
AwaitSendTransaction(p) == [p EXCEPT !.pc = "sendTransaction"]

\* The block processBlock asked for arrives: processBlock runs up to the
\* first chain-client call of sendTransaction, or returns to the for loop.
ProcessBlock ==
    /\ Running
    /\ poll.pc = "getBlock"
    /\ blockCount < MaxPolled
    /\ blockCount' = blockCount + 1
    /\ IF Skipped(blockCount + 1)
       THEN /\ ProcessBlockReturns
            /\ UNCHANGED << sentTransactionCount, dispatch, dispatched, proc,
                            isPolling, stopCalled, stoppedAt >>
       ELSE IF BudgetLeft(sentTransactionCount)
       THEN LET task == GasStep(poll.block) IN
            /\ dispatch' = [dispatch EXCEPT ![blockCount + 1] = task]
            /\ sentTransactionCount' = sentTransactionCount + Reserved(task)
            /\ dispatched' = dispatched \cup {blockCount + 1}
            /\ poll' = AwaitSendTransaction(poll)
            /\ UNCHANGED << proc, isPolling, lastProcessedBlock, stopCalled,
                            stoppedAt >>
       ELSE /\ StopHTTP
            /\ StopRecorded(blockCount + 1)
            /\ ProcessBlockReturns
            /\ UNCHANGED << sentTransactionCount, dispatch, dispatched >>
    /\ UNCHANGED << config, variant, inbound, shutdownRequested, startT0, now,
                    pendingTransactions, confirmationMetrics, cachedGasData,
                    cachedNonce, isConnected, ws, socks, timers, exitTimer,
                    refreshAt, monitor, refresh, height, txs, faults >>

\* The chain client has no block for the number, or the lookup fails:
\* processBlock returns without counting a block.
BlockNotFound ==
    /\ Running
    /\ poll.pc = "getBlock"
    /\ CanFail
    /\ faults' = faults + 1
    /\ ProcessBlockReturns
    /\ UNCHANGED << config, variant, inbound, lifeVars, isPolling, proc, startT0, now,
                    engineVars, isConnected, ws, socks, timers, exitTimer,
                    refreshAt, dispatch, monitor, refresh, height, txs,
                    dispatched >>

\* -------------------------------------------------------- Refresh Scheduler
\* The interval callback from `await this.getCachedNonce()` on.
RefreshNonceStep ==
    IF NonceCacheValid(now) THEN IdleRefresh
    ELSE [pc |-> "getNonce", t0 |-> now]

\* The interval callback from its first line.
RefreshGasStep ==
    IF GasCacheValid(now) THEN RefreshNonceStep
    ELSE [pc |-> "getFeeData", t0 |-> now]

FreeSlot(tasks, slot) ==
    /\ tasks[slot].pc = "idle"
    /\ \A other \in DOMAIN tasks : other < slot => tasks[other].pc # "idle"

\* The 20 s interval fires.
RefreshFire(r) ==
    /\ Running
    /\ now >= refreshAt
    /\ FreeSlot(refresh, r)
    /\ refreshAt' = refreshAt + REFRESH_INTERVAL
    /\ refresh' = [refresh EXCEPT ![r] = RefreshGasStep]
    /\ UNCHANGED << config, variant, inbound, lifeVars, feedVars, proc, startT0, now, engineVars,
                    isConnected, ws, socks, timers, exitTimer, dispatch,
                    monitor, height, txs, dispatched, faults >>

\* The fee query of refresh tick r answers.
RefreshGasResponse(r) ==
    /\ Running
    /\ refresh[r].pc = "getFeeData"
    /\ \E a \in FeeAnswers :
          cachedGasData' = FreshCell(GasPriceOf(a), refresh[r].t0)
    /\ refresh' = [refresh EXCEPT ![r] = RefreshNonceStep]
    /\ UNCHANGED << config, variant, inbound, lifeVars, feedVars, proc, startT0, now, blockCount,
                    sentTransactionCount, pendingTransactions,
                    confirmationMetrics, cachedNonce, isConnected, ws, socks,
                    timers, exitTimer, refreshAt, dispatch, monitor, height,
                    txs, dispatched, faults >>

\* The sequence query of refresh tick r answers.
RefreshNonceResponse(r) ==
    /\ Running
    /\ refresh[r].pc = "getNonce"
    /\ \E v \in NonceAnswers : cachedNonce' = FreshCell(v, refresh[r].t0)
    /\ refresh' = [refresh EXCEPT ![r] = IdleRefresh]
    /\ UNCHANGED << config, variant, inbound, lifeVars, feedVars, proc, startT0, now, blockCount,
                    sentTransactionCount, pendingTransactions,
                    confirmationMetrics, cachedGasData, isConnected, ws,
                    socks, timers, exitTimer, refreshAt, dispatch, monitor,
                    height, txs, dispatched, faults >>

\* A tick whose rejection nobody catches: the process ends.
RefreshCatchMissing(p) == "exited"

\* The catch of the interval callback: console.warn, and the process goes on.
RefreshCatch(p) == p

\* A query of refresh tick r fails: the error is logged and dropped.
RefreshFailure(r) ==
    /\ Running
    /\ refresh[r].pc \in {"getFeeData", "getNonce"}
    /\ CanFail
    /\ faults' = faults + 1
    /\ refresh' = [refresh EXCEPT ![r] = IdleRefresh]
    /\ GetRejects(refresh[r].pc)
    /\ proc' = RefreshCatch(proc)
    /\ UNCHANGED << config, variant, inbound, lifeVars, feedVars, startT0, now, blockCount,
                    sentTransactionCount, pendingTransactions,
                    confirmationMetrics, isConnected, ws, socks, timers,
                    exitTimer, refreshAt, dispatch, monitor, height, txs,
                    dispatched >>

\* ----------------------------------------------------- Confirmation Monitor
Min(S) == CHOOSE x \in S : \A y \in S : x <= y

\* A loop that a lookup error ends: the tick is over.
NextEntryAfterErrorAborts(cur, pending) == IdleMonitor

\* The catch inside the for-of loop swallows the error; the loop goes on
\* with the next entry.
NextEntryAfterError(cur, pending) ==
    LET rest == {h \in DOMAIN pending : h > cur} IN
    IF rest = {} THEN IdleMonitor
    ELSE [pc |-> "getTransactionReceipt", hash |-> Min(rest), startLen |-> 0]

\* The for-of loop over pendingTransactions.entries() moves on from key cur:
\* the iterator is live, so it yields the next key present now.
NextEntry(cur, pending) ==
    LET rest == {h \in DOMAIN pending : h > cur} IN
    IF rest = {} THEN IdleMonitor
    ELSE [pc |-> "getTransactionReceipt", hash |-> Min(rest), startLen |-> 0]

\* Tick m goes on with the record next.
Within(m, next) ==
    IF next.pc = "idle" THEN next
    ELSE [next EXCEPT !.startLen = monitor[m].startLen]

\* The 2 s interval fires while entries are pending.
MonitorTick(m) ==
    /\ Running
    /\ FreeSlot(monitor, m)
    /\ DOMAIN pendingTransactions # {}
    /\ monitor' = [monitor EXCEPT ![m] =
                     [NextEntry(0, pendingTransactions)
                         EXCEPT !.startLen = Len(txs)]]
    /\ UNCHANGED << config, variant, inbound, lifeVars, feedVars, proc, startT0, now, engineVars,
                    isConnected, ws, socks, timers, exitTimer, refreshAt,
                    dispatch, refresh, height, txs, dispatched, faults >>

\* The receipt lookup of tick m answers: a receipt (the transaction is mined)
\* starts processConfirmedTransaction, which looks up the confirming block;
\* no receipt moves the loop on.
ReceiptResponse(m) ==
    /\ Running
    /\ monitor[m].pc = "getTransactionReceipt"
    /\ monitor' = [monitor EXCEPT ![m] =
                     IF txs[monitor[m].hash].minedAt > 0
                     THEN [monitor[m] EXCEPT !.pc = "getBlock"]
                     ELSE Within(m, NextEntry(monitor[m].hash,
                                              pendingTransactions))]
    /\ UNCHANGED << config, variant, inbound, lifeVars, feedVars, proc, startT0, now, engineVars,
                    isConnected, ws, socks, timers, exitTimer, refreshAt,
                    dispatch, refresh, height, txs, dispatched, faults >>

\* The receipt lookup or the confirming-block lookup of tick m fails: the
\* catch inside the loop swallows the error and the loop moves on.
LookupFailure(m) ==
    /\ Running
    /\ monitor[m].pc \in {"getTransactionReceipt", "getBlock"}
    /\ CanFail
    /\ faults' = faults + 1
    /\ monitor' = [monitor EXCEPT ![m] =
                     Within(m, NextEntryAfterError(monitor[m].hash,
                                                   pendingTransactions))]
    /\ UNCHANGED << config, variant, inbound, lifeVars, feedVars, proc, startT0, now, engineVars,
                    isConnected, ws, socks, timers, exitTimer, refreshAt,
                    dispatch, refresh, height, txs, dispatched >>

\* An entry whose distance is taken from the confirming block back to itself.
MetricsReversed(hash, receiptBlock, info) ==
    [transactionHash |-> hash,
     sentBlockNumber |-> info.sentBlock,
     confirmedBlockNumber |-> receiptBlock,
     blocksToConfirm |-> info.sentBlock - receiptBlock]

\* The ConfirmationMetrics entry processConfirmedTransaction builds; info is
\* the pending entry the loop read when it reached the hash.
Metrics(hash, receiptBlock, info) ==
    [transactionHash |-> hash,
     sentBlockNumber |-> info.sentBlock,
     confirmedBlockNumber |-> receiptBlock,
     blocksToConfirm |-> receiptBlock - info.sentBlock]

\* A delete that evicts every entry along with the confirmed one.
DeleteEvicting(pending, hash) == [h \in {} |-> pending[h]]

\* this.pendingTransactions.delete(hash)
Delete(pending, hash) ==
    [h \in DOMAIN pending \ {hash} |-> pending[h]]

\* The pending entry of an accepted submission never changes, so the info a
\* tick holds for a hash is the entry recorded at submission.
InfoOf(hash) == [sentBlock |-> txs[hash].sentBlock]

\* The confirming-block lookup of tick m answers: the metrics entry is
\* pushed, completion arms the exit timer, the entry is deleted and the
\* loop moves on.
BlockResponse(m) ==
    /\ Running
    /\ monitor[m].pc = "getBlock"
    /\ LET h == monitor[m].hash
           pending == Delete(pendingTransactions, h) IN
       /\ confirmationMetrics' =
             Append(confirmationMetrics, Metrics(h, txs[h].minedAt, InfoOf(h)))
       /\ exitTimer' = (exitTimer \/
             Len(confirmationMetrics) + 1 = config.transactionCount)
       /\ pendingTransactions' = pending
       /\ monitor' = [monitor EXCEPT ![m] = Within(m, NextEntry(h, pending))]
    /\ UNCHANGED << config, variant, inbound, lifeVars, feedVars, proc, startT0, now, blockCount,
                    sentTransactionCount, cachedGasData, cachedNonce,
                    isConnected, ws, socks, timers, refreshAt, dispatch,
                    refresh, height, txs, dispatched, faults >>

\* The auto-exit timer fires: process.exit(0).
ExitTimerFire ==
    /\ Running
    /\ exitTimer
    /\ proc' = "exited"
    /\ UNCHANGED << config, variant, inbound, lifeVars, feedVars, startT0, now, engineVars,
                    isConnected, ws, socks, timers, exitTimer, refreshAt,
                    dispatch, monitor, refresh, height, txs, dispatched,
                    faults >>

SockIds == 1..Len(socks)

\* -------------------------------------------------------- next-state relations
StartStep ==
    \/ StartBegin
    \/ StartGasOk
    \/ StartNonceOk
    \/ StartBlockNumberOk
    \/ StartFail

FeedStep ==
    \/ \E s \in SockIds : SockOpen(s)
    \/ \E s \in SockIds : SockError(s)
    \/ \E s \in SockIds : SockClose(s)
    \/ Reconnect

CallerStep ==
    \/ CallerStops
    \/ Signal

PollStep ==
    \/ PollFire
    \/ BlockNumberResponse
    \/ PollFailure
    \/ ProcessBlock
    \/ BlockNotFound

\* The steps of a dispatch that finds both cells valid: the block event and
\* the resolution of the submission.
SubmitStep ==
    \/ \E s \in SockIds : HandleNewBlock(s)
    \/ \E e \in Events : SubmitSuccess(e)
    \/ \E e \in Events : SubmitFailure(e)

\* The resolution of a chain query a dispatch made for an expired cell.
QueryStep ==
    \/ \E e \in Events : GasResponse(e)
    \/ \E e \in Events : NonceResponse(e)
    \/ \E e \in Events : QueryFailure(e)

DispatchStep == SubmitStep \/ QueryStep

RefreshStep ==
    \/ \E r \in RefreshSlots : RefreshFire(r)
    \/ \E r \in RefreshSlots : RefreshGasResponse(r)
    \/ \E r \in RefreshSlots : RefreshNonceResponse(r)
    \/ \E r \in RefreshSlots : RefreshFailure(r)

MonitorStep ==
    \/ \E m \in MonitorSlots : MonitorTick(m)
    \/ \E m \in MonitorSlots : ReceiptResponse(m)
    \/ \E m \in MonitorSlots : LookupFailure(m)
    \/ \E m \in MonitorSlots : BlockResponse(m)
    \/ ExitTimerFire

\* The engine with its cache under the clock: start(), the feed (socket or
\* poll loop), the Dispatch Controller and the Refresh Scheduler.  The
\* Confirmation Monitor is left out: it writes only the pending map, the
\* metrics and the exit timer, none of which these actions read before the
\* run is complete.
Next ==
    \/ StartStep
    \/ Tick
    \/ NewChainBlock
    \/ FeedStep
    \/ PollStep
    \/ DispatchStep
    \/ RefreshStep

Spec == Init /\ [][Next]_vars

\* The engine within the first validity window of its cache (the clock
\* stands still, so no cache get queries the chain client after start()):
\* start(), the feed, the Dispatch Controller and the Confirmation Monitor.
MonitorNext ==
    \/ StartStep
    \/ NewChainBlock
    \/ FeedStep
    \/ PollStep
    \/ SubmitStep
    \/ MonitorStep
    \/ CallerStep

SpecMonitor == Init /\ [][MonitorNext]_vars

\* ------------------------------------------------------------------- claims
Budget == config.transactionCount

\* C1: in every reachable state transactionsSent <= transactionBudget, also
\* when a block event is delivered while an earlier dispatch is suspended on
\* a chain-client call.
C1_SentWithinBudget == sentTransactionCount <= Budget

\* C2: the number of transactions the chain client accepted in one run never
\* exceeds transactionBudget, whatever block events and chain-client
\* failures occur.
C2_NoOverSending == Len(txs) <= Budget

\* C3: after n successful dispatches the cached sequence value equals
\* initialSequence + n, whatever refresh ticks and TTL-expiry re-queries
\* are interleaved, a query answering between initialSequence + mined and
\* initialSequence + submitted.
C3_SequenceTracksDispatches ==
    cachedNonce.set => cachedNonce.value = InitialNonce + Len(txs)

\* C4: no two successful submissions of one run carry the same sequence
\* value.
C4_DistinctSequenceValues ==
    \A g, h \in Hashes : g # h => txs[g].nonce # txs[h].nonce

\* C5: once the sequence cell is filled, no step lowers its value.
C5_SequenceNeverDecreases ==
    [][cachedNonce.set => cachedNonce'.value >= cachedNonce.value]_vars

\* C8: with initialBlocksToSkip = k, none of the first k block events
\* causes a parameter fetch or a submission, and the (k+1)th block event
\* causes the first dispatch attempt.
C8_SkipCorrect ==
    LET k == config.initialBlocksToSkip IN
    /\ \A e \in dispatched : e > k
    /\ \A e \in Events : e <= k => dispatch[e].pc = "idle"
    /\ \A h \in Hashes : txs[h].event > k
    /\ blockCount > k => (k + 1) \in dispatched

\* C8 witness: one block event was skipped and the second one dispatched.
C8_Witness ==
    /\ config.initialBlocksToSkip = 1
    /\ blockCount = 2
    /\ dispatched = {2}

\* The step in which the chain client rejects or fails the submission of
\* dispatch e: the invocation ends and no transaction was accepted.
SubmissionFails(e) ==
    /\ dispatch[e].pc = "sendTransaction"
    /\ dispatch'[e].pc = "failed"

\* The first block event delivered after the submission of dispatch e
\* failed.
NextEventAfter(e) == dispatch[e].block + 1

Delivered(n) == n \in Events /\ blockCount >= n

\* C9: a rejected or failed submission gives back the budget slot the
\* attempt reserved, creates no pending entry, does not advance the
\* sequence cell and does not stop the engine; the next block event
\* attempts a dispatch, and the submission of that attempt carries the
\* sequence value the failed one carried.
C9_FailedSubmissionRestores ==
    /\ [][\A e \in Events : SubmissionFails(e) =>
             /\ sentTransactionCount' = sentTransactionCount - 1
             /\ pendingTransactions' = pendingTransactions
             /\ cachedNonce' = cachedNonce
             /\ proc' = proc /\ socks' = socks /\ ws' = ws
             /\ isConnected' = isConnected /\ isPolling' = isPolling]_vars
    /\ [](\A e \in Events :
             (dispatch[e].pc = "failed" /\ Delivered(NextEventAfter(e))) =>
                LET n == NextEventAfter(e) IN
                /\ n \in dispatched
                /\ dispatch[n].pc = "sendTransaction" =>
                      dispatch[n].nonce = dispatch[e].nonce)

\* The step in which the fee or sequence query of dispatch e fails.
QueryFails(e) ==
    /\ dispatch[e].pc \in {"getFeeData", "getNonce"}
    /\ dispatch'[e].pc = "idle"

\* C10: a dispatch whose fee or sequence query fails commits nothing:
\* transactionsSent is what it was before the attempt, no pending entry
\* exists for it and the sequence value is not advanced.
C10_FailedQueryCommitsNothing ==
    [][\A e \in Events : QueryFails(e) =>
          /\ sentTransactionCount' = sentTransactionCount
          /\ pendingTransactions' = pendingTransactions
          /\ cachedNonce' = cachedNonce]_vars

\* C6: each transaction hash has at most one ConfirmationMetrics entry.
C6_OneMetricsEntryPerHash ==
    \A i, j \in DOMAIN confirmationMetrics :
        i # j => confirmationMetrics[i].transactionHash
                    # confirmationMetrics[j].transactionHash

\* isCompleted()
IsCompleted == Len(confirmationMetrics) = config.transactionCount

ConfirmedHashes ==
    {confirmationMetrics[i].transactionHash : i \in DOMAIN confirmationMetrics}

\* C7: isCompleted() is true only when receipts were observed for
\* transactionBudget distinct submitted transactions, and never while a
\* submitted transaction is still unconfirmed.
C7_CompletedOnlyWhenAllConfirmed ==
    IsCompleted =>
        /\ Cardinality(ConfirmedHashes) = Budget
        /\ DOMAIN pendingTransactions \subseteq ConfirmedHashes

\* The validity test of the specification: now - lastUpdated < ttl.
WithinTtl(cell, ttl) == cell.set /\ now - cell.lastUpdated < ttl

\* Dispatch e makes its fee-rate get in this step.
GasGet(e) ==
    /\ dispatch[e].pc = "idle"
    /\ dispatch'[e].pc \in {"getFeeData", "getNonce", "sendTransaction"}

\* Dispatch e makes its sequence get in this step.
NonceGet(e) ==
    /\ dispatch[e].pc \in {"idle", "getFeeData"}
    /\ dispatch'[e].pc \in {"getNonce", "sendTransaction"}

\* The fee-rate get of dispatch e returns from its query in this step.
GasGetReturns(e) ==
    /\ dispatch[e].pc = "getFeeData"
    /\ dispatch'[e].pc \in {"getNonce", "sendTransaction"}

\* The sequence get of dispatch e returns from its query in this step.
NonceGetReturns(e) ==
    /\ dispatch[e].pc = "getNonce"
    /\ dispatch'[e].pc = "sendTransaction"

\* Refresh tick r makes its fee-rate / sequence get in this step and a
\* query goes out.
RefreshGasQuery(r) == refresh[r].pc = "idle" /\ refresh'[r].pc = "getFeeData"

RefreshNonceQuery(r) ==
    refresh[r].pc \in {"idle", "getFeeData"} /\ refresh'[r].pc = "getNonce"

\* C11: a get made while now - lastUpdated < ttl returns the stored value
\* with cached = true and issues no query; a get made on an expired cell
\* issues one query (stamped with the time of the get), stores nothing
\* until the answer, and on the answer stores the returned value with that
\* timestamp and returns cached = false.
C11_CacheFreshness ==
    [][/\ \A e \in Events :
            /\ GasGet(e) =>
                 IF WithinTtl(cachedGasData, GAS_CACHE_TTL)
                 THEN /\ dispatch'[e].pc # "getFeeData"
                      /\ dispatch'[e].gasPrice = cachedGasData.value
                      /\ dispatch'[e].gasCached
                      /\ cachedGasData' = cachedGasData
                 ELSE /\ dispatch'[e].pc = "getFeeData"
                      /\ dispatch'[e].t0 = now
                      /\ cachedGasData' = cachedGasData
            /\ NonceGet(e) =>
                 IF WithinTtl(cachedNonce, NONCE_CACHE_TTL)
                 THEN /\ dispatch'[e].pc = "sendTransaction"
                      /\ dispatch'[e].nonce = cachedNonce.value
                      /\ dispatch'[e].nonceCached
                      /\ cachedNonce' = cachedNonce
                 ELSE /\ dispatch'[e].pc = "getNonce"
                      /\ dispatch'[e].t0 = now
                      /\ cachedNonce' = cachedNonce
            /\ GasGetReturns(e) =>
                 /\ cachedGasData' =
                       [set |-> TRUE, value |-> dispatch'[e].gasPrice,
                        lastUpdated |-> dispatch[e].t0]
                 /\ ~dispatch'[e].gasCached
            /\ NonceGetReturns(e) =>
                 /\ cachedNonce' =
                       [set |-> TRUE, value |-> dispatch'[e].nonce,
                        lastUpdated |-> dispatch[e].t0]
                 /\ ~dispatch'[e].nonceCached
       /\ \A r \in RefreshSlots :
            /\ RefreshGasQuery(r) => ~WithinTtl(cachedGasData, GAS_CACHE_TTL)
            /\ RefreshNonceQuery(r) => ~WithinTtl(cachedNonce, NONCE_CACHE_TTL)]_vars

\* C11 witness: a dispatch found the fee cell expired, queried, and stored
\* the answer under the time of its get; its sequence get was served from
\* the cell.
C11_Witness ==
    \E e \in Events :
        /\ dispatch[e].pc = "sendTransaction"
        /\ ~dispatch[e].gasCached
        /\ dispatch[e].nonceCached
        /\ cachedGasData.lastUpdated >= GAS_CACHE_TTL
        /\ cachedGasData.value = dispatch[e].gasPrice

\* The query of a cache get fails in this step: in a dispatch, in a refresh
\* tick, or in start().
DispatchGetFails(e) ==
    /\ dispatch[e].pc \in {"getFeeData", "getNonce"}
    /\ dispatch'[e] # dispatch[e]
    /\ faults' = faults + 1

RefreshGetFails(r) ==
    /\ refresh[r].pc \in {"getFeeData", "getNonce"}
    /\ refresh'[r] # refresh[r]
    /\ faults' = faults + 1

StartGetFails ==
    /\ proc \in {"getFeeData", "getNonce"}
    /\ proc' # proc
    /\ faults' = faults + 1

CellsKept == cachedGasData' = cachedGasData /\ cachedNonce' = cachedNonce

\* C12: when the query of a cache get fails, the caller gets the error and
\* no value (a dispatch issues no submission, a refresh tick ends, start()
\* rejects), and both cells keep their value and timestamp.
C12_FailedGetKeepsCell ==
    [][/\ \A e \in Events :
            DispatchGetFails(e) =>
               /\ CellsKept
               /\ dispatch'[e].pc = "idle"
               /\ txs' = txs
               /\ pendingTransactions' = pendingTransactions
       /\ \A r \in RefreshSlots :
            RefreshGetFails(r) => CellsKept /\ refresh'[r].pc = "idle"
       /\ StartGetFails => CellsKept /\ proc' = "exited"]_vars

\* C12 witness: the fee query of a dispatch failed on an expired cell: the
\* dispatch is over without a submission and the cell still holds its old,
\* expired timestamp.
C12_Witness ==
    /\ faults = 1
    /\ \E e \in dispatched :
          /\ dispatch[e].pc = "idle"
          /\ \A h \in Hashes : txs[h].event # e
    /\ cachedGasData.set
    /\ now - cachedGasData.lastUpdated >= GAS_CACHE_TTL

\* The refresh interval fires in this step.
RefreshTickFires == Running /\ refreshAt' # refreshAt

\* C13: every Refresh Scheduler tick queries the chain client for the fee
\* rate and, when that is answered, for the account sequence, also when the
\* cell is still valid by its TTL.
C13_RefreshUnconditional ==
    [][/\ RefreshTickFires =>
             \E r \in RefreshSlots :
                 refresh[r].pc = "idle" /\ refresh'[r].pc = "getFeeData"
       /\ \A r \in RefreshSlots :
             (refresh[r].pc = "getFeeData" /\ refresh'[r] # refresh[r]
                 /\ faults' = faults) => refresh'[r].pc = "getNonce"]_vars

\* Pull: the fetch of block poll.block fails in this step (the lookup
\* rejects or the chain client has no such block).
BlockFetchFails ==
    /\ poll.pc = "getBlock"
    /\ poll' # poll
    /\ faults' = faults + 1

C15_FeedStaysHalted ==
    [][(variant = "push" /\ stopCalled) =>
          /\ Len(socks') = Len(socks)
          /\ blockCount' = blockCount
          /\ dispatched' = dispatched]_vars

\* C16: pull variant: once stop() has been called, no block event is
\* processed beyond the one in progress at that moment, and no transaction
\* is submitted for a later one.
C16_NoEventAfterStop ==
    (variant = "pull" /\ stopCalled) =>
        /\ blockCount <= stoppedAt
        /\ \A e \in dispatched : e <= stoppedAt
        /\ \A h \in Hashes : txs[h].event <= stoppedAt


\* The feed under the scheduling the runtime guarantees: a socket that failed
\* emits 'close', the 5 s reconnect timer fires, and a connection attempt
\* that is not lost opens.
FeedFairness ==
    /\ WF_vars(\E s \in SockIds : SockClose(s))
    /\ WF_vars(Reconnect)
    /\ WF_vars(\E s \in SockIds : SockOpen(s))

SpecFeed == Init /\ [][MonitorNext]_vars /\ FeedFairness

\* The connection of socket s was lost and stop() has not been called.
Lost(s) ==
    /\ variant = "push"
    /\ s \in SockIds
    /\ socks[s] \in {"closing", "closed"}
    /\ ~stopCalled

\* A WebSocket created after s carries the subscribe request.
Resubscribed(s) == \E n \in SockIds : n > s /\ socks[n] = "subscribed"

AwaitingSubmission == {e \in Events : dispatch[e].pc = "sendTransaction"}

\* C19: in every state transactionsSent >= 0 and equals the dispatches
\* awaiting submission plus the pending entries plus the distinct confirmed
\* transactions.
C19_SentReflectsInFlight ==
    /\ sentTransactionCount >= 0
    /\ sentTransactionCount = Cardinality(AwaitingSubmission)
                              + Cardinality(DOMAIN pendingTransactions)
                              + Cardinality(ConfirmedHashes)


\* C20: every ConfirmationMetrics entry has blocksToConfirm =
\* confirmedBlockNumber - sentBlockNumber >= 0, in both variants (the chain
\* only grows, and a transaction is mined in a block above the height at
\* which it was submitted).
C20_BlocksToConfirmNonNegative ==
    \A i \in DOMAIN confirmationMetrics :
        LET m == confirmationMetrics[i] IN
        /\ m.blocksToConfirm = m.confirmedBlockNumber - m.sentBlockNumber
        /\ m.blocksToConfirm >= 0

\* A transaction dispatched for a replayed gap block (pull) is confirmed
\* two or more blocks above it.
C20_Witness ==
    /\ variant = "pull"
    /\ \E i \in DOMAIN confirmationMetrics :
          /\ confirmationMetrics[i].sentBlockNumber < height
          /\ confirmationMetrics[i].blocksToConfirm >= 2


\* ----------------------------------------------------------------- liveness
\* The engine left to itself: no caller stops it.
LiveNext ==
    \/ StartStep
    \/ NewChainBlock
    \/ FeedStep
    \/ PollStep
    \/ SubmitStep
    \/ MonitorStep

\* A block that includes a transaction waiting in the pool.
MinesSome ==
    /\ NewChainBlock \/ \E s \in SockIds : HandleNewBlock(s)
    /\ \E h \in Unmined : txs'[h].minedAt > 0

\* The pull variant's chain produces a block while the engine has budget
\* left to spend on it.
BlockForPoll == NewChainBlock /\ variant = "pull" /\ BudgetLeft(sentTransactionCount)

\* What the runtime and the chain client guarantee: timers fire, every call
\* is answered, a notification reaches a subscribed socket, and a block
\* includes what can be included.
LiveFairness ==
    /\ FeedFairness
    /\ WF_vars(StartStep)
    /\ WF_vars(PollStep)
    /\ WF_vars(\E s \in SockIds : HandleNewBlock(s))
    /\ WF_vars(BlockForPoll)
    /\ WF_vars(MinesSome)
    /\ \A e \in Events : WF_vars(SubmitSuccess(e) \/ SubmitFailure(e))
    /\ WF_vars(\E m \in MonitorSlots : MonitorTick(m))
    /\ \A m \in MonitorSlots :
          WF_vars(ReceiptResponse(m) \/ LookupFailure(m) \/ BlockResponse(m))

SpecLive == Init /\ [][LiveNext]_vars /\ LiveFairness

\* No further block event can arrive: the run's events are used up, the
\* chain has reached its last block (and the poll loop has consumed it), or
\* no further WebSocket can be created.
NoMoreEvents ==
    IF variant = "push"
    THEN \/ blockCount = MaxBlocks
         \/ height = MaxHeight
         \/ Len(socks) = MaxSockets /\ \A s \in SockIds : ~Live(s)
    ELSE \/ blockCount = MaxPolled
         \/ height = MaxHeight /\ lastProcessedBlock = height

\* A submitted transaction that can have no receipt: its sequence value was
\* taken by another transaction, or the chain has reached its last block.
ReceiptImpossible ==
    \E h \in Unmined : txs[h].nonce < ChainNonce \/ height = MaxHeight

\* The premises of C18 fail: start() failed, block events stop while budget
\* is left, or a submitted transaction can have no receipt.
PremisesFail ==
    \/ proc = "exited" /\ ~exitTimer
    \/ BudgetLeft(sentTransactionCount) /\ NoMoreEvents
    \/ ReceiptImpossible

\* C18: when block events keep arriving, chain-client calls eventually
\* succeed and every submitted transaction gets a receipt, the engine
\* eventually reaches a state where the confirmed count equals
\* transactionBudget and isCompleted() is true.
C18_EventuallyCompleted == <>(IsCompleted \/ PremisesFail)

\* Completion reached in a run in which a chain-client call failed.
C18_Witness ==
    /\ IsCompleted
    /\ ~PremisesFail
    /\ faults = MaxFaults
    /\ Cardinality(ConfirmedHashes) = Budget


\* The receipt lookup or the confirming-block lookup of tick m fails in this
\* step.
LookupFails(m) ==
    /\ monitor[m].pc \in {"getTransactionReceipt", "getBlock"}
    /\ monitor'[m] # monitor[m]
    /\ faults' = faults + 1

\* The pending hashes the loop of a tick has still to reach after hash cur.
Ahead(cur, pending) == {h \in DOMAIN pending : h > cur}

\* Tick m starts in this step.
TickStarts(m) == monitor[m].pc = "idle" /\ monitor'[m].pc # "idle"

\* C21: a lookup error in a Confirmation Monitor tick leaves the hash
\* pending and adds no metrics entry, the tick goes on to the other pending
\* hashes, and every tick starts at the first pending hash, so the failed
\* hash is looked up again on the next tick.
C21_LookupErrorSwallowed ==
    [][\A m \in MonitorSlots :
          /\ LookupFails(m) =>
                /\ pendingTransactions' = pendingTransactions
                /\ confirmationMetrics' = confirmationMetrics
                /\ Ahead(monitor[m].hash, pendingTransactions) # {} =>
                      /\ monitor'[m].pc = "getTransactionReceipt"
                      /\ monitor'[m].hash =
                            Min(Ahead(monitor[m].hash, pendingTransactions))
          /\ TickStarts(m) =>
                /\ monitor'[m].pc = "getTransactionReceipt"
                /\ monitor'[m].hash = Min(DOMAIN pendingTransactions)]_vars

\* C21 witness: the run's one failure was a lookup of the Confirmation
\* Monitor (start(), the socket and both submissions succeeded); both hashes
\* are still pending, none has a metrics entry, and a tick is past the
\* first, mined, hash and looks up the second.
C21_Witness ==
    /\ variant = "push"
    /\ socks = << "subscribed" >>
    /\ faults = 1
    /\ Len(txs) = 2
    /\ \A e \in dispatched : \E h \in Hashes : txs[h].event = e
    /\ DOMAIN pendingTransactions = {1, 2}
    /\ confirmationMetrics = << >>
    /\ txs[1].minedAt > 0
    /\ monitor[1].pc = "getTransactionReceipt"
    /\ monitor[1].hash = 2
    /\ monitor[2] = IdleMonitor


\* C22: every successfully submitted hash is in the pending map or has a
\* metrics entry, an entry leaves the pending map only when its hash has a
\* metrics entry, and stop() removes none.
C22_PendingUntilConfirmed ==
    /\ [](\A h \in Hashes :
             h \in DOMAIN pendingTransactions \/ h \in ConfirmedHashes)
    /\ [][\A h \in DOMAIN pendingTransactions :
             h \notin DOMAIN pendingTransactions' =>
                /\ h \in {confirmationMetrics'[i].transactionHash :
                             i \in DOMAIN confirmationMetrics'}
                /\ stopCalled' = stopCalled]_vars

\* C22 witness: after stop() one transaction is confirmed and gone from the
\* pending map while the other, unmined, is still pending.
C22_Witness ==
    /\ stopCalled
    /\ Len(txs) = 2
    /\ ConfirmedHashes = {1}
    /\ DOMAIN pendingTransactions = {2}
    /\ txs[2].minedAt = 0


\* Submitted transactions still waiting for their confirmation.
Unconfirmed == DOMAIN pendingTransactions \ ConfirmedHashes

\* C23: the first shutdown signal stops the service and leaves the process
\* running while submitted transactions are unconfirmed; a second signal
\* exits.
C23_FirstSignalWaitsForPending ==
    [][Signal =>
          /\ stopCalled'
          /\ shutdownRequested => proc' = "exited"
          /\ (~shutdownRequested /\ Unconfirmed # {}) => proc' = "running"]_vars


\* The state a stop() call leaves behind it.
JustStopped ==
    /\ stopCalled
    /\ IF variant = "push" THEN ws = 0 /\ ~isConnected ELSE ~isPolling

\* C24: while not all transactions are confirmed, a stop() that follows a
\* stop() changes nothing (feed flag, socket, counters, cache, pending map,
\* metrics) and raises no error: the process keeps running.
C24_StopIdempotent ==
    [][(CallerStops /\ JustStopped /\ ~IsCompleted) =>
          UNCHANGED << isPolling, isConnected, ws, socks, blockCount,
                       sentTransactionCount, cachedGasData, cachedNonce,
                       pendingTransactions, confirmationMetrics, proc >>]_vars

\* C24 witness: stop() was called with a transaction pending, and a second
\* call can follow it.
C24_Witness ==
    /\ Running
    /\ JustStopped
    /\ ~IsCompleted
    /\ ~shutdownRequested
    /\ DOMAIN pendingTransactions # {}
    /\ blockCount = stoppedAt


\* The push feed with every kind of inbound message: start(), the socket,
\* block notifications and their dispatches, and messages that are dropped.
MessageNext ==
    \/ StartStep
    \/ NewChainBlock
    \/ FeedStep
    \/ SubmitStep
    \/ \E s \in SockIds : DropMessage(s)

SpecMessages == Init /\ [][MessageNext]_vars

\* A new-block subscription notification that carries a result.
IsBlockNotification(msg) ==
    msg.parses /\ msg.method = "eth_subscription" /\ msg.result

\* A message arrives in this step.
MessageArrives == inbound' # inbound \/ blockCount' # blockCount

\* C25: push variant: a message that does not parse, or is not a new-block
\* notification carrying a result, changes neither blocksSeen,
\* transactionsSent, the cache cells nor the pending map and leaves the
\* connection as it is; a subscribed socket still delivers the next block
\* notification afterwards.
C25_MalformedMessageDropped ==
    /\ [][(MessageArrives /\ ~IsBlockNotification(inbound'.last)) =>
             UNCHANGED << blockCount, sentTransactionCount, cachedGasData,
                          cachedNonce, pendingTransactions, dispatch,
                          isConnected, ws, socks, proc >>]_vars
    /\ [](\A s \in SockIds :
             (/\ inbound.dropped > 0
              /\ Running
              /\ socks[s] = "subscribed"
              /\ height < MaxHeight
              /\ blockCount < MaxBlocks) => ENABLED HandleNewBlock(s))

\* C25 witness: after a message was dropped, a block notification arrived on
\* the same connection and started a dispatch.
C25_Witness ==
    /\ inbound.dropped = 1
    /\ IsBlockNotification(inbound.last)
    /\ socks = << "subscribed" >>
    /\ blockCount = 1
    /\ dispatch[1].pc = "sendTransaction"


\* A block event that is not skipped is delivered in this step.
NonSkippedEvent ==
    /\ blockCount' = blockCount + 1
    /\ blockCount' > config.initialBlocksToSkip

\* C26: a non-skipped block event that finds transactionsSent >=
\* transactionBudget stops the engine, starts no dispatch (no fee-rate query,
\* no sequence query, no submission) and leaves transactionsSent, both cache
\* cells and the pending map unchanged.
C26_BudgetExhaustedEvent ==
    [][(NonSkippedEvent /\ sentTransactionCount >= Budget) =>
          /\ stopCalled'
          /\ IF variant = "push" THEN ws' = 0 /\ ~isConnected' ELSE ~isPolling'
          /\ Len(txs') = Len(txs)
          /\ UNCHANGED << dispatch, dispatched, sentTransactionCount,
                          cachedGasData, cachedNonce,
                          pendingTransactions >>]_vars

\* C26 witness: the event that found the budget used up has just stopped
\* the engine; the fee cell was expired and stays so, no query is under way.
C26_Witness ==
    /\ stopCalled
    /\ stoppedAt = blockCount
    /\ blockCount > config.initialBlocksToSkip
    /\ blockCount \notin dispatched
    /\ sentTransactionCount = Budget
    /\ now - cachedGasData.lastUpdated >= GAS_CACHE_TTL
    /\ \A e \in Events : dispatch[e].pc \in {"idle", "failed"}


\* The dispatch of event e obtains its fee rate in this step (from a valid
\* cell, or from the query whose answer is stored in the cell).
HasGasNow(e) ==
    /\ dispatch[e].pc \in {"idle", "getFeeData"}
    /\ dispatch'[e].pc \in {"getNonce", "sendTransaction"}

\* The dispatch of event e obtains its sequence value and issues the
\* submission in this step.
SubmitsNow(e) ==
    /\ dispatch[e].pc # "sendTransaction"
    /\ dispatch'[e].pc = "sendTransaction"

\* The submission of the dispatch of event e is accepted in this step.
Succeeds(e) ==
    /\ dispatch[e].pc = "sendTransaction"
    /\ dispatch'[e].pc = "idle"
    /\ Len(txs') = Len(txs) + 1

\* The number of the block whose event starts a dispatch in this step.
EventNumber == IF variant = "push" THEN height' ELSE poll.block

\* C27: a dispatch submits with the fee rate and the sequence value it read
\* from the cache under the number of its block event; it raises
\* transactionsSent by one when it issues the submission, and its success
\* raises the cached sequence value by one and adds exactly one pending
\* entry, keyed by the returned hash, with the event's block number and
\* timestamp.
C27_SuccessfulDispatchEffects ==
    [][\A e \in Events :
          /\ (e \notin dispatched /\ e \in dispatched') =>
                dispatch'[e].block = EventNumber
          /\ HasGasNow(e) => dispatch'[e].gasPrice = cachedGasData'.value
          /\ SubmitsNow(e) =>
                /\ dispatch'[e].nonce = cachedNonce'.value
                /\ dispatch[e].pc = "getNonce" =>
                      dispatch'[e].gasPrice = dispatch[e].gasPrice
                /\ sentTransactionCount' = sentTransactionCount + 1
          /\ Succeeds(e) =>
                LET hash == Len(txs') IN
                /\ txs'[hash].nonce = dispatch[e].nonce
                /\ txs'[hash].gasPrice = dispatch[e].gasPrice
                /\ sentTransactionCount' = sentTransactionCount
                /\ cachedNonce'.value = cachedNonce.value + 1
                /\ hash \notin DOMAIN pendingTransactions
                /\ DOMAIN pendingTransactions' =
                      DOMAIN pendingTransactions \cup {hash}
                /\ \A h \in DOMAIN pendingTransactions :
                      pendingTransactions'[h] = pendingTransactions[h]
                /\ pendingTransactions'[hash].sentBlock = dispatch[e].block
                /\ pendingTransactions'[hash].sentBlockTimestamp =
                      BlockTimestamp(dispatch[e].block)]_vars

\* C27 witness: the pull variant replayed block 1 when the chain was already
\* higher; the dispatch succeeded: one transaction sent, the cached sequence
\* value advanced, one pending entry under block 1.
C27_Witness ==
    /\ variant = "pull"
    /\ Len(txs) = 1
    /\ height >= 2
    /\ sentTransactionCount = 1
    /\ cachedNonce.value = InitialNonce + 1
    /\ DOMAIN pendingTransactions = {1}
    /\ pendingTransactions[1].sentBlock = 1
    /\ txs[1].sentBlock = 1
    /\ dispatch[txs[1].event].pc = "idle"


\* C28: the local sequence advance of a successful submission adds exactly
\* one to the cell's value, leaves its lastUpdated as it is and starts no
\* chain-client query, also when the cell is stale: the cell expires when it
\* would have expired without the advance.
C28_LocalAdvanceKeepsTimestamp ==
    [][\A e \in Events : Succeeds(e) =>
          /\ cachedNonce'.value = cachedNonce.value + 1
          /\ cachedNonce'.lastUpdated = cachedNonce.lastUpdated
          /\ cachedNonce'.set = cachedNonce.set
          /\ refresh' = refresh
          /\ \A d \in Events : dispatch'[d].pc \notin {"getFeeData", "getNonce"}
                                  \/ dispatch'[d] = dispatch[d]]_vars

\* C28 witness: after a successful submission the sequence cell holds the
\* advanced value under the timestamp of start() and is stale on time: the
\* advance did not renew it.
C28_Witness ==
    /\ Len(txs) = 1
    /\ cachedNonce.value = InitialNonce + 1
    /\ cachedNonce.lastUpdated = 0
    /\ now - cachedNonce.lastUpdated >= NONCE_CACHE_TTL
    /\ \A e \in Events : dispatch[e].pc = "idle"
    /\ \A r \in RefreshSlots : refresh[r].pc = "idle"


\* C29: a Confirmation Monitor tick looks up only hashes that were in the
\* pending map when it started: an entry the Dispatch Controller inserts
\* while the tick is suspended is left to the next tick.
C29_TickWorksOnSnapshot ==
    \A m \in MonitorSlots :
        monitor[m].pc # "idle" => monitor[m].hash <= monitor[m].startLen


\* C30: a chain-client failure in a Refresh Scheduler tick goes no further:
\* both cells keep value and timestamp, transactionsSent, the pending map
\* and the dispatches under way are untouched, the process keeps running
\* and the interval keeps its schedule.
C30_RefreshFailureContained ==
    [][\A r \in RefreshSlots : RefreshGetFails(r) =>
          /\ CellsKept
          /\ refresh'[r].pc = "idle"
          /\ proc' = "running"
          /\ UNCHANGED << sentTransactionCount, pendingTransactions, dispatch,
                          refreshAt, blockCount >>]_vars

\* C30 witness: the run's one failure was a refresh tick's fee query (the
\* socket is the first one, the only dispatch is under way): the cell is
\* still expired, a later tick queries again and the dispatch pays for its
\* own query.
C30_Witness ==
    /\ variant = "push"
    /\ socks = << "subscribed" >>
    /\ faults = MaxFaults
    /\ Cardinality(dispatched) = 1
    /\ \A e \in dispatched : dispatch[e].pc = "getFeeData"
    /\ sentTransactionCount = 0
    /\ \E r \in RefreshSlots : refresh[r].pc = "getFeeData"
    /\ ~GasCacheValid(now)


\* Pull: processBlock hands a block to the Dispatch Controller in this step.
BlockHandedOver == variant = "pull" /\ blockCount' = blockCount + 1

\* C31: pull variant: the baseline starts at the height start() read and
\* never decreases; every block handed to the Dispatch Controller is above
\* the baseline, hence above every block handed over before it and above the
\* start height; the submissions carry strictly increasing block numbers.
C31_BlocksStrictlyIncreasing ==
    /\ [][/\ lastProcessedBlock' >= lastProcessedBlock
          /\ (proc = "getBlockNumber" /\ proc' = "running") =>
                lastProcessedBlock' = height
          /\ BlockHandedOver =>
                /\ poll.block > lastProcessedBlock
                /\ poll.block <= height
                /\ \A h \in Hashes : txs[h].sentBlock < poll.block]_vars
    /\ [](variant = "pull" =>
             \A g, h \in Hashes : g < h => txs[g].sentBlock < txs[h].sentBlock)

\* C31 witness: start() read height 1; after a failed call the loop handed
\* over blocks 2 and 3 in two poll cycles, and both dispatches succeeded.
C31_Witness ==
    /\ variant = "pull"
    /\ faults = MaxFaults
    /\ Len(txs) = 2
    /\ txs[1].sentBlock = 2
    /\ txs[2].sentBlock = 3
    /\ blockCount = 2
    /\ lastProcessedBlock = 3


\* Both cache cells hold a value.
CellsFilled == cachedGasData.set /\ cachedNonce.set

\* The block feed exists: a socket was created (push) or polling began (pull).
FeedStarted == socks # << >> \/ isPolling \/ poll # IdlePoll

\* The monitor or the refresh interval is armed or has ticked.
TimersStarted ==
    \/ refreshAt # 0
    \/ \E m \in MonitorSlots : monitor[m] # IdleMonitor
    \/ \E r \in RefreshSlots : refresh[r] # IdleRefresh

\* A block event was handed to the Dispatch Controller.
BlockEventHandled ==
    blockCount > 0 \/ \E e \in Events : dispatch[e] # IdleDispatch

\* C32: the feed, the timers and every block event find both cache cells
\* filled; a failed pre-fetch query ends start() and the process with
\* neither the feed nor a timer started.
C32_CacheFilledBeforeFeed ==
    /\ []((FeedStarted \/ TimersStarted \/ BlockEventHandled \/ Running)
             => CellsFilled)
    /\ [][StartGetFails =>
             /\ proc' = "exited"
             /\ ~FeedStarted'
             /\ ~TimersStarted'
             /\ ~CellsFilled']_vars

\* C32 witness: a dispatch is at its submission, on a block event taken
\* from a started feed with both timers armed and both cells filled.
C32_Witness ==
    /\ CellsFilled
    /\ FeedStarted
    /\ refreshAt # 0
    /\ \E m \in MonitorSlots : monitor[m] # IdleMonitor
    /\ \E e \in Events : dispatch[e].pc = "sendTransaction"


\* Pull: the block-number query of a poll cycle fails in this step.
HeightQueryFails ==
    /\ poll.pc = "getBlockNumber"
    /\ poll' # poll
    /\ faults' = faults + 1

\* Pull: a poll cycle exists: it waits for its timer or for an answer.
PollScheduled == isPolling /\ poll.pc # "idle"

\* Pull, running, stop() not called.
PollingWanted == variant = "pull" /\ Running /\ ~stopCalled

\* C33: pull variant: while stop() has not been called a poll cycle always
\* exists; a failed height query leaves the next poll scheduled and a failed
\* block fetch leaves the loop running or the next poll scheduled; a block
\* that is on the chain after a failure is reached by the poll loop unless
\* stop() is called or the process exits first.
C33_FailureNeverEndsPolling ==
    /\ [](PollingWanted => PollScheduled)
    /\ [][(variant = "pull" /\ ~stopCalled) =>
             /\ HeightQueryFails => (poll' = SleepingPoll /\ isPolling')
             /\ BlockFetchFails =>
                   (poll'.pc \in {"getBlock", "sleep"} /\ isPolling')]_vars
    /\ \A n \in 1..MaxHeight :
          (PollingWanted /\ faults > 0 /\ height >= n)
             ~> (lastProcessedBlock >= n \/ stopCalled \/ proc = "exited")

\* C33 witness: after a failed height query or block fetch, with stop() not
\* called, block 2 was fetched and its dispatch is at the submission.
C33_Witness ==
    /\ PollingWanted
    /\ faults > 0
    /\ poll.pc = "sendTransaction"
    /\ poll.block = 2
    /\ blockCount = 1
    /\ lastProcessedBlock = 1


\* C34 (as claimed): once isCompleted() has returned true it returns true in
\* every later state: the metrics sequence never passes the budget and
\* never shrinks.
C34_CompletedStable ==
    /\ [][IsCompleted => IsCompleted']_vars
    /\ [](Len(confirmationMetrics) <= Budget)
    /\ [][Len(confirmationMetrics') >= Len(confirmationMetrics)]_vars


\* The block events whose dispatch is in progress.
InProgress ==
    {e \in Events : dispatch[e].pc \in {"getFeeData", "getNonce", "sendTransaction"}}

\* C35: pull variant: at most one dispatch is in progress, the poll cycle
\* waits for it at the block the dispatch works on, and while it is in
\* progress no other block is counted and no other dispatch moves.
C35_PullSerialized ==
    /\ [](variant = "pull" =>
             /\ Cardinality(InProgress) <= 1
             /\ \A e \in InProgress :
                   /\ poll.pc = "sendTransaction"
                   /\ poll.block = dispatch[e].block
                   /\ e = blockCount)
    /\ [][variant = "pull" =>
             \A e \in InProgress :
                /\ blockCount' = blockCount
                /\ \A f \in Events \ {e} : dispatch'[f] = dispatch[f]]_vars

\* C35 witness: pull: the second dispatch awaits a cache query while a
\* refresh tick awaits one too, and the poll cycle waits for the dispatch.
C35_Witness ==
    /\ variant = "pull"
    /\ Len(txs) >= 1
    /\ \E e \in InProgress : dispatch[e].pc \in {"getFeeData", "getNonce"}
    /\ \E r \in RefreshSlots : refresh[r].pc \in {"getFeeData", "getNonce"}
    /\ poll.pc = "sendTransaction"
    /\ height > poll.block


\* C36 (as claimed): the lastUpdated timestamp of each cache cell never
\* decreases, whatever the order in which overlapping queries complete.
C36_TimestampMonotone ==
    [][/\ cachedGasData'.lastUpdated >= cachedGasData.lastUpdated
       /\ cachedNonce'.lastUpdated >= cachedNonce.lastUpdated]_vars


\* The sockets that are open or being opened, and those whose 'close' event
\* is still to come.
LiveSocks == {s \in SockIds : Live(s)}
ClosingSocks == {s \in SockIds : socks[s] = "closing"}

\* C37: push variant: at most one socket is open or being opened and at most
\* one reconnect timer is outstanding; a socket that is live or closing and
\* an outstanding timer exclude each other.
C37_OneConnectionOneTimer ==
    variant = "push" =>
        /\ Cardinality(LiveSocks) <= 1
        /\ timers <= 1
        /\ Cardinality(LiveSocks) + Cardinality(ClosingSocks) + timers <= 1

\* C37 witness: the first socket failed and closed, its reconnect timer
\* fired and opened the second socket, and stop() closed that one.
C37_Witness ==
    /\ variant = "push"
    /\ Len(socks) = 2
    /\ socks[1] = "closed"
    /\ socks[2] = "closing"
    /\ faults > 0
    /\ stopCalled
    /\ timers = 0

====
